---- MODULE Spec2Model ----
(***************************************************************************)
(* Model of homeassistant/components/tplink/switch.py: the SmartPlugSwitch *)
(* entity (cached identity, on/off state, emeter cache, availability), its *)
(* bounded-retry async_update loop, attempt_update, turn_on and turn_off,  *)
(* and the pyHS100 SmartPlug device it talks to.                           *)
(***************************************************************************)
EXTENDS Integers, Sequences, FiniteSets, TLC

\* ------------------------------------------------------------------ constants
MAX_ATTEMPTS == 20
SLEEP_TIME == 2

\* Bounds of the model (not program constants).
MaxDay == 2       \* days of the month the runtime clock goes through: 1..MaxDay
MaxGen == 2       \* identities (alias, model, MAC) the device may report: 1..MaxGen

None == "None"
NoState == <<>>                      \* self._state = None
NoSysinfo == <<>>                    \* self._sysinfo = None
EmptyDict == [k \in {} |-> 0]        \* {}

SWITCH_STATE_ON == "ON"
SWITCH_STATE_OFF == "OFF"

ATTR_CURRENT_POWER_W == "current_power_w"
ATTR_TODAY_ENERGY_KWH == "today_energy_kwh"
ATTR_VOLTAGE == "voltage"
ATTR_TOTAL_ENERGY_KWH == "total_energy_kwh"
ATTR_CURRENT_A == "current_a"

SmartDeviceException == "SmartDeviceException"
OSError == "OSError"
StopIteration == "StopIteration"
Caught == {SmartDeviceException, OSError}     \* the except clause of attempt_update

\* The device client's values.  Child ids of a power strip; "80" is the
\* outlet a child-context entity addresses.
ChildId == "80"
SiblingId == "81"
DevHost == "192.168.1.10"
Aliases == <<"plug one", "plug two", "plug three", "plug four">>
Models == <<"HS110(EU)", "HS100(UK)", "HS300(US)", "HS105(US)">>
Macs == <<"50:C7:BF:00:00:01", "50:C7:BF:00:00:02", "50:C7:BF:00:00:03", "50:C7:BF:00:00:04">>
SwVers == <<"1.2.5", "1.5.6", "1.0.3", "1.1.0">>

VARIABLES
    \* the device behind self.smartplug
    context,        \* smartplug.context: None or the addressed child id
    childIds,       \* ids of the records in sys_info["children"]
    has_emeter,     \* smartplug.has_emeter
    devState,       \* smartplug.state of a single-outlet device
    childState,     \* state field of every child record
    devGen,         \* which alias/model/MAC the device reports now
    today,          \* int(time.strftime("%e"))
    histDays,       \* keys of smartplug.get_emeter_daily()
    \* the fields of SmartPlugSwitch
    sysinfo, state, available, emeter_params, mac, alias, host, model,
    device_id, is_ready,
    \* position of the async_update coroutine
    pc, update_attempt,
    \* the executor job of line 186: what its state query returned, until
    \* update_state assigns it
    stateRead,
    \* observations: what the last operation did and what the current
    \* async_update call logged
    lastOp, nWarnRetry, nWarnLost, nSleep, onlyOSError, wasAvailable

devVars == <<context, childIds, has_emeter, devState, childState, devGen, today, histDays>>
identityVars == <<sysinfo, mac, alias, host, model, device_id>>
cacheVars == <<state, emeter_params>>
selfVars == <<sysinfo, state, available, emeter_params, mac, alias, host, model, device_id, is_ready>>
loopVars == <<pc, update_attempt>>
jobVars == <<stateRead>>
callVars == <<nWarnRetry, nWarnLost, nSleep, onlyOSError, wasAvailable>>
vars == <<devVars, selfVars, loopVars, jobVars, lastOp, callVars>>

\* ------------------------------------------------------------------ helpers
Min(a, b) == IF a <= b THEN a ELSE b

Pow10(n) == IF n = 0 THEN 1 ELSE IF n = 1 THEN 10 ELSE IF n = 2 THEN 100
            ELSE IF n = 3 THEN 1000 ELSE 10000

\* "{:.<digits>f}".format(v): v is a reading in units of 1/10000; the result
\* is the decimal string with <digits> decimals, kept as its digits
\* (scaled = the number without the decimal point), rounded to nearest.
Format(v, digits) ==
    LET unit == Pow10(4 - digits)
        q == v \div unit
        r == v % unit
        up == (2 * r > unit) \/ (2 * r = unit /\ q % 2 = 1)
    IN [digits |-> digits, scaled |-> IF up THEN q + 1 ELSE q]

\* dict[key] = value
DictSet(d, key, value) ==
    [k \in DOMAIN d \cup {key} |-> IF k = key THEN value ELSE d[k]]

\* ------------------------------------------------------------------ device
\* smartplug.sys_info["children"]: one record per child outlet
sys_info_children ==
    [c \in childIds |->
        [id |-> c,
         alias |-> IF c = context THEN Aliases[devGen] ELSE "sibling",
         state |-> childState[c]]]

\* whether the device's addressed outlet is switched on
DeviceIsOn ==
    IF context = None THEN devState = SWITCH_STATE_ON
    ELSE context \in childIds /\ childState[context] = 1

\* smartplug.get_emeter_realtime(): in units of 1/10000 W, kWh, V, A
get_emeter_realtime ==
    [power |-> IF DeviceIsOn THEN 123449 ELSE 0,
     total |-> 12340 + 4567 * today,
     voltage |-> 1201400,
     current |-> IF DeviceIsOn THEN 1151 ELSE 0]

\* smartplug.get_emeter_daily(): day of month -> kWh, in units of 1/10000
get_emeter_daily == [d \in histDays |-> 4560 + 11 * d]

\* smartplug.sys_info, as far as the entity keeps it
sys_info == <<[sw_ver |-> SwVers[devGen], mac |-> Macs[devGen]]>>

\* the device obeys a turn_on / turn_off command sent for the addressed outlet
Commanded(on) ==
    /\ devState' = IF context = None
                   THEN (IF on THEN SWITCH_STATE_ON ELSE SWITCH_STATE_OFF)
                   ELSE devState
    /\ childState' = IF context \in childIds
                     THEN [childState EXCEPT ![context] = IF on THEN 1 ELSE 0]
                     ELSE childState
    /\ UNCHANGED <<context, childIds, has_emeter, devGen, today, histDays>>

\* ------------------------------------------------------------------ entity
\* _plug_from_context: next(c for c in children if c["id"] == context);
\* next() raises StopIteration when no child matches
LookupFails == context # None /\ context \notin childIds
plug_from_context == sys_info_children[context]

\* update_state: the value it assigns to self._state
update_state ==
    IF context = None
    THEN <<devState = SWITCH_STATE_ON>>
    ELSE <<plug_from_context.state = 1>>

\* The device calls of attempt_update, in the order the code makes them.
P_sys_info == 1
P_mac == 2
P_model == 3
P_alias == 4
P_state == 5
P_has_emeter == 6
P_realtime == 7
P_daily == 8
P_none == 9
Faults == P_sys_info .. P_none

\* as Resolving, had the identity been fetched on every attempt
ResolvingEveryAttempt == TRUE

\* `if not self._sysinfo`
Resolving == sysinfo = NoSysinfo

\* whether attempt_update makes the device call p at all
Executed(p) ==
    CASE p \in P_sys_info .. P_alias -> Resolving
      [] p \in P_realtime .. P_daily -> has_emeter
      [] OTHER -> TRUE

\* the call at which _plug_from_context raises StopIteration (P_none: nowhere)
StopPoint == IF ~LookupFails THEN P_none
             ELSE IF Resolving THEN P_alias ELSE P_state

\* the exception that ends the try block when the device call `fault` raises
\* `kind`; None when the block runs to its end
Raised(fault, kind) ==
    IF fault < P_none /\ fault <= StopPoint THEN kind
    ELSE IF StopPoint < P_none THEN StopIteration
    ELSE None

\* the first call that does not return
ErrorPoint(fault) == Min(fault, StopPoint)

\* as EmeterParams, without the `if self.smartplug.has_emeter` of line 146
EmeterParamsUnguarded(e) ==
    LET r == get_emeter_realtime
        four == DictSet(DictSet(DictSet(DictSet(emeter_params,
                    ATTR_CURRENT_POWER_W, Format(r.power, 2)),
                    ATTR_TOTAL_ENERGY_KWH, Format(r.total, 3)),
                    ATTR_VOLTAGE, Format(r.voltage, 1)),
                    ATTR_CURRENT_A, Format(r.current, 2))
    IN  IF e <= P_has_emeter THEN emeter_params
        ELSE IF today \in DOMAIN get_emeter_daily
             THEN DictSet(four, ATTR_TODAY_ENERGY_KWH, Format(get_emeter_daily[today], 3))
             ELSE four

\* lines 146-169: the emeter cache after a try block that ended at call e
EmeterParams(e) ==
    LET r == get_emeter_realtime
        four == DictSet(DictSet(DictSet(DictSet(emeter_params,
                    ATTR_CURRENT_POWER_W, Format(r.power, 2)),
                    ATTR_TOTAL_ENERGY_KWH, Format(r.total, 3)),
                    ATTR_VOLTAGE, Format(r.voltage, 1)),
                    ATTR_CURRENT_A, Format(r.current, 2))
    IN  IF ~has_emeter \/ e <= P_realtime THEN emeter_params
        ELSE IF e <= P_daily THEN four
        ELSE IF today \in DOMAIN get_emeter_daily
             THEN DictSet(four, ATTR_TODAY_ENERGY_KWH, Format(get_emeter_daily[today], 3))
             ELSE four      \* except KeyError: pass

\* lines 132-142: the identity fields after a try block that ended at call e
ResolveIdentity(e) ==
    /\ sysinfo' = IF Resolving /\ e > P_sys_info THEN sys_info ELSE sysinfo
    /\ host' = IF Resolving /\ e > P_sys_info THEN DevHost ELSE host
    /\ mac' = IF Resolving /\ e > P_mac THEN Macs[devGen] ELSE mac
    /\ model' = IF Resolving /\ e > P_model THEN Models[devGen] ELSE model
    /\ alias' = IF Resolving /\ e > P_alias
                THEN (IF context = None THEN Aliases[devGen] ELSE plug_from_context.alias)
                ELSE alias
    /\ device_id' = IF Resolving /\ e > P_alias
                    THEN (IF context = None THEN mac' ELSE context)
                    ELSE device_id

\* as Catches, had the clause been `except SmartDeviceException`
CatchesDeviceErrorOnly(ex) == ex = SmartDeviceException

\* the except clause of attempt_update: which exceptions it catches
Catches(ex) == ex \in Caught

\* what the last attempt_update ended with
AttemptLabel(ex) ==
    CASE ex = None -> "attempt_ok"
      [] ex = OSError -> "attempt_OSError"
      [] ex = SmartDeviceException -> "attempt_SmartDeviceException"
      [] ex = StopIteration -> "attempt_StopIteration"

\* An exception the except clause does not catch leaves attempt_update inside
\* the executor job awaited at line 186.  What the await does with it depends
\* on the interpreter: the exception is raised out of async_update, or (a
\* StopIteration cannot be set on an asyncio future) the future is never
\* resolved and async_update stays suspended at the await.
Escapes == {"raised", "hung"}

\* async_update is not running: never called, returned, or left by an exception
Ended == {"idle", "returned", "raised"}

\* async_update line 184 and the executor job of line 186: attempt_update.
\* fault is the device call that raises (P_none: none does), kind its exception.
AttemptUpdate(fault, kind) ==
    /\ pc = "attempt"
    /\ Executed(fault)
    /\ fault <= StopPoint \/ fault = P_none
    /\ LET e == ErrorPoint(fault)
           ex == Raised(fault, kind)
       IN /\ ResolveIdentity(e)
          /\ state' = IF e > P_state THEN update_state ELSE state
          /\ emeter_params' = EmeterParams(e)
          /\ is_ready' = (ex = None)
          /\ nWarnRetry' = IF ex # None /\ Catches(ex) THEN nWarnRetry + 1 ELSE nWarnRetry
          /\ onlyOSError' = (onlyOSError /\ ex \in {None, OSError})
          /\ lastOp' = AttemptLabel(ex)
          /\ pc' \in IF ex = None \/ Catches(ex) THEN {"check"} ELSE Escapes
    /\ UNCHANGED <<devVars, available, update_attempt, nWarnLost, nSleep, wasAvailable>>
    /\ UNCHANGED jobVars

\* The same executor job in two steps, as another thread sees it.  The first
\* runs line 184 and the try block up to the state query of update_state
\* (lines 125, 127) having returned; fault is in P_sys_info .. P_state or P_none.
AttemptBegin(fault, kind) ==
    /\ pc = "attempt"
    /\ fault <= P_state \/ fault = P_none
    /\ Executed(fault)
    /\ fault <= StopPoint \/ fault = P_none
    /\ LET e == ErrorPoint(fault)
           ex == Raised(fault, kind)
       IN /\ ResolveIdentity(e)
          /\ is_ready' = FALSE
          /\ IF e <= P_state
             THEN /\ stateRead' = NoState
                  /\ nWarnRetry' = IF Catches(ex) THEN nWarnRetry + 1 ELSE nWarnRetry
                  /\ onlyOSError' = (onlyOSError /\ ex = OSError)
                  /\ lastOp' = AttemptLabel(ex)
                  /\ pc' \in IF Catches(ex) THEN {"check"} ELSE Escapes
             ELSE /\ stateRead' = update_state
                  /\ nWarnRetry' = nWarnRetry
                  /\ onlyOSError' = onlyOSError
                  /\ lastOp' = "attempt_begin"
                  /\ pc' = "in_attempt"
    /\ UNCHANGED <<devVars, cacheVars, available, update_attempt, nWarnLost, nSleep, wasAvailable>>

\* The second step: the assignment to self._state and lines 146-179; fault
\* is in P_has_emeter .. P_none.
AttemptFinish(fault, kind) ==
    /\ pc = "in_attempt"
    /\ fault >= P_has_emeter
    /\ Executed(fault)
    /\ LET ex == IF fault < P_none THEN kind ELSE None
       IN /\ state' = stateRead
          /\ stateRead' = NoState
          /\ emeter_params' = EmeterParams(fault)
          /\ is_ready' = (ex = None)
          /\ nWarnRetry' = IF ex # None /\ Catches(ex) THEN nWarnRetry + 1 ELSE nWarnRetry
          /\ onlyOSError' = (onlyOSError /\ ex \in {None, OSError})
          /\ lastOp' = AttemptLabel(ex)
          /\ pc' \in IF ex = None \/ Catches(ex) THEN {"check"} ELSE Escapes
    /\ UNCHANGED <<devVars, identityVars, available, update_attempt, nWarnLost, nSleep, wasAvailable>>

\* the host calls async_update
AsyncUpdateStart ==
    /\ pc \in Ended
    /\ pc' = "attempt"
    /\ update_attempt' = 0
    /\ lastOp' = "start"
    /\ nWarnRetry' = 0
    /\ nWarnLost' = 0
    /\ nSleep' = 0
    /\ onlyOSError' = TRUE
    /\ wasAvailable' = available
    /\ UNCHANGED <<devVars, selfVars>>
    /\ UNCHANGED jobVars

\* as CheckReady, had a failed attempt marked the entity unavailable at once
CheckReadyDropsAvailability ==
    /\ pc = "check"
    /\ IF is_ready
       THEN /\ available' = TRUE
            /\ pc' = "returned"
            /\ lastOp' = "ready"
       ELSE /\ available' = FALSE
            /\ pc' = "sleep"
            /\ lastOp' = "retry"
    /\ UNCHANGED <<devVars, identityVars, cacheVars, is_ready, update_attempt, callVars>>
    /\ UNCHANGED jobVars

\* as CheckReady, without the break of line 190
CheckReadyNoBreak ==
    /\ pc = "check"
    /\ available' = (is_ready \/ available)
    /\ pc' = "sleep"
    /\ lastOp' = IF is_ready THEN "ready" ELSE "retry"
    /\ UNCHANGED <<devVars, identityVars, cacheVars, is_ready, update_attempt, callVars>>
    /\ UNCHANGED jobVars

\* lines 188-190
CheckReady ==
    /\ pc = "check"
    /\ IF is_ready
       THEN /\ available' = TRUE
            /\ pc' = "returned"
            /\ lastOp' = "ready"
       ELSE /\ available' = available
            /\ pc' = "sleep"
            /\ lastOp' = "retry"
    /\ UNCHANGED <<devVars, identityVars, cacheVars, is_ready, update_attempt, callVars>>
    /\ UNCHANGED jobVars

\* as Sleep, had the delay been skipped after the last attempt
SleepNotAfterLast ==
    /\ pc = "sleep"
    /\ lastOp' = "slept"
    /\ IF update_attempt + 1 < MAX_ATTEMPTS
       THEN /\ update_attempt' = update_attempt + 1
            /\ nSleep' = nSleep + 1
            /\ pc' = "attempt"
       ELSE /\ update_attempt' = update_attempt
            /\ nSleep' = nSleep
            /\ pc' = "else"
    /\ UNCHANGED <<devVars, selfVars, nWarnRetry, nWarnLost, onlyOSError, wasAvailable>>
    /\ UNCHANGED jobVars

\* line 191, then the head of the for loop
Sleep ==
    /\ pc = "sleep"
    /\ nSleep' = nSleep + 1
    /\ lastOp' = "slept"
    /\ IF update_attempt + 1 < MAX_ATTEMPTS
       THEN /\ update_attempt' = update_attempt + 1
            /\ pc' = "attempt"
       ELSE /\ update_attempt' = update_attempt
            /\ pc' = "else"
    /\ UNCHANGED <<devVars, selfVars, nWarnRetry, nWarnLost, onlyOSError, wasAvailable>>
    /\ UNCHANGED jobVars

\* as Exhausted, without the `if self._available` around the warning
ExhaustedAlwaysWarns ==
    /\ pc = "else"
    /\ nWarnLost' = nWarnLost + 1
    /\ available' = FALSE
    /\ pc' = "returned"
    /\ lastOp' = "exhausted"
    /\ UNCHANGED <<devVars, identityVars, cacheVars, is_ready, update_attempt,
                   nWarnRetry, nSleep, onlyOSError, wasAvailable>>
    /\ UNCHANGED jobVars

\* lines 192-197: the else clause of the for loop
Exhausted ==
    /\ pc = "else"
    /\ nWarnLost' = IF available THEN nWarnLost + 1 ELSE nWarnLost
    /\ available' = FALSE
    /\ pc' = "returned"
    /\ lastOp' = "exhausted"
    /\ UNCHANGED <<devVars, identityVars, cacheVars, is_ready, update_attempt,
                   nWarnRetry, nSleep, onlyOSError, wasAvailable>>
    /\ UNCHANGED jobVars

\* as TurnOn, had it called update_state after the command as turn_off does
TurnOnWithUpdate(fails) ==
    /\ IF fails
       THEN /\ lastOp' = "turn_on_raised"
            /\ state' = state
            /\ UNCHANGED devVars
       ELSE /\ Commanded(TRUE)
            /\ IF LookupFails
               THEN /\ lastOp' = "turn_on_raised"
                    /\ state' = state
               ELSE /\ lastOp' = "turn_on"
                    /\ state' = IF context = None
                                THEN <<devState' = SWITCH_STATE_ON>>
                                ELSE <<childState'[context] = 1>>
    /\ UNCHANGED <<identityVars, available, emeter_params, is_ready, loopVars, callVars>>
    /\ UNCHANGED jobVars

\* turn_on: raises when the device command does (fails)
TurnOn(fails) ==
    /\ IF fails
       THEN /\ lastOp' = "turn_on_raised"
            /\ UNCHANGED devVars
       ELSE /\ lastOp' = "turn_on"
            /\ Commanded(TRUE)
    /\ UNCHANGED <<selfVars, loopVars, callVars>>
    /\ UNCHANGED jobVars

\* as TurnOff, had it run attempt_update instead of update_state
TurnOffAttemptsUpdate(fault) ==
    /\ IF fault = "cmd"
       THEN /\ lastOp' = "turn_off_raised"
            /\ state' = state
            /\ is_ready' = is_ready
            /\ UNCHANGED devVars
       ELSE /\ Commanded(FALSE)
            /\ IF fault = "state" \/ LookupFails
               THEN /\ lastOp' = "turn_off_raised"
                    /\ state' = state
                    /\ is_ready' = is_ready
               ELSE /\ lastOp' = "turn_off"
                    /\ state' = IF context = None
                                THEN <<devState' = SWITCH_STATE_ON>>
                                ELSE <<childState'[context] = 1>>
                    /\ is_ready' = TRUE
    /\ UNCHANGED <<identityVars, available, emeter_params, loopVars, callVars>>
    /\ UNCHANGED jobVars

\* as TurnOff, without the update_state of line 109 (as turn_on is)
TurnOffWithoutUpdate(fault) ==
    /\ IF fault = "cmd"
       THEN /\ lastOp' = "turn_off_raised"
            /\ UNCHANGED devVars
       ELSE /\ Commanded(FALSE)
            /\ lastOp' = "turn_off"
    /\ state' = state
    /\ UNCHANGED <<identityVars, available, emeter_params, is_ready, loopVars, callVars>>
    /\ UNCHANGED jobVars

\* as TurnOff, had update_state been in a finally clause
TurnOffAlwaysUpdates(fault) ==
    /\ IF fault = "cmd"
       THEN /\ lastOp' = "turn_off_raised"
            /\ state' = IF LookupFails THEN state ELSE update_state
            /\ UNCHANGED devVars
       ELSE /\ Commanded(FALSE)
            /\ IF fault = "state" \/ LookupFails
               THEN /\ lastOp' = "turn_off_raised"
                    /\ state' = state
               ELSE /\ lastOp' = "turn_off"
                    /\ state' = IF context = None
                                THEN <<devState' = SWITCH_STATE_ON>>
                                ELSE <<childState'[context] = 1>>
    /\ UNCHANGED <<identityVars, available, emeter_params, is_ready, loopVars, callVars>>
    /\ UNCHANGED jobVars

\* turn_off: the command, then update_state.  fault: "cmd" when the command
\* raises, "state" when the state query of update_state does, else "none"
TurnOff(fault) ==
    /\ IF fault = "cmd"
       THEN /\ lastOp' = "turn_off_raised"
            /\ state' = state
            /\ UNCHANGED devVars
       ELSE /\ Commanded(FALSE)
            /\ IF fault = "state" \/ LookupFails
               THEN /\ lastOp' = "turn_off_raised"
                    /\ state' = state
               ELSE /\ lastOp' = "turn_off"
                    /\ state' = IF context = None
                                THEN <<devState' = SWITCH_STATE_ON>>
                                ELSE <<childState'[context] = 1>>
    /\ UNCHANGED <<identityVars, available, emeter_params, is_ready, loopVars, callVars>>
    /\ UNCHANGED jobVars

\* ------------------------------------------------------------------ environment
\* somebody presses the button of an outlet, or another client switches it
DeviceToggled(c) ==
    /\ IF context = None
       THEN /\ c = None
            /\ devState' = IF devState = SWITCH_STATE_ON THEN SWITCH_STATE_OFF
                           ELSE SWITCH_STATE_ON
            /\ childState' = childState
       ELSE /\ c \in childIds
            /\ childState' = [childState EXCEPT ![c] = 1 - @]
            /\ devState' = devState
    /\ lastOp' = "device"
    /\ UNCHANGED <<context, childIds, has_emeter, devGen, today, histDays>>
    /\ UNCHANGED <<selfVars, loopVars, callVars>>
    /\ UNCHANGED jobVars

\* the device is renamed / replaced behind the same host address
DeviceReplaced(g) ==
    /\ g # devGen
    /\ devGen' = g
    /\ lastOp' = "device"
    /\ UNCHANGED <<context, childIds, has_emeter, devState, childState, today, histDays>>
    /\ UNCHANGED <<selfVars, loopVars, callVars>>
    /\ UNCHANGED jobVars

\* the runtime clock passes midnight
Midnight ==
    /\ today < MaxDay
    /\ today' = today + 1
    /\ lastOp' = "device"
    /\ UNCHANGED <<context, childIds, has_emeter, devState, childState, devGen, histDays>>
    /\ UNCHANGED <<selfVars, loopVars, callVars>>
    /\ UNCHANGED jobVars

\* the device starts the daily-history entry of the current day
DayRecorded ==
    /\ today \notin histDays
    /\ histDays' = histDays \cup {today}
    /\ lastOp' = "device"
    /\ UNCHANGED <<context, childIds, has_emeter, devState, childState, devGen, today>>
    /\ UNCHANGED <<selfVars, loopVars, callVars>>
    /\ UNCHANGED jobVars

\* ------------------------------------------------------------------ specification
\* SmartPlugSwitch.__init__ for a discovered device
Init ==
    /\ context \in {None, ChildId}
    /\ childIds \in (IF context = None THEN {{}} ELSE {{ChildId, SiblingId}, {SiblingId}})
    /\ has_emeter \in BOOLEAN
    /\ devState \in (IF context = None THEN {SWITCH_STATE_ON, SWITCH_STATE_OFF}
                     ELSE {SWITCH_STATE_OFF})
    /\ childState \in [childIds -> {0, 1}]
    /\ devGen = 1
    /\ today = 1
    /\ histDays \in (IF has_emeter THEN {{}, {1}} ELSE {{}})
    /\ sysinfo = NoSysinfo
    /\ state = NoState
    /\ available = FALSE
    /\ emeter_params = EmptyDict
    /\ mac = None
    /\ alias = None
    /\ host = None
    /\ model = None
    /\ device_id = None
    /\ is_ready = FALSE
    /\ pc = "idle"
    /\ update_attempt = 0
    /\ stateRead = NoState
    /\ lastOp = "init"
    /\ nWarnRetry = 0
    /\ nWarnLost = 0
    /\ nSleep = 0
    /\ onlyOSError = TRUE
    /\ wasAvailable = FALSE

\* The host drives async_update and the switch services against a device
\* whose outlets are switched from outside as well.
Next ==
    \/ AsyncUpdateStart
    \/ \E fault \in Faults, kind \in Caught : AttemptUpdate(fault, kind)
    \/ CheckReady
    \/ Sleep
    \/ Exhausted
    \/ \E fails \in BOOLEAN : TurnOn(fails)
    \/ \E fault \in {"none", "cmd", "state"} : TurnOff(fault)
    \/ \E c \in {None, ChildId, SiblingId} : DeviceToggled(c)

Spec == Init /\ [][Next]_vars

\* The same, for a device without emeter whose reported identity changes.
InitIdentity == Init /\ ~has_emeter

NextIdentity ==
    \/ AsyncUpdateStart
    \/ \E fault \in Faults : AttemptUpdate(fault, OSError)
    \/ CheckReady
    \/ Sleep
    \/ Exhausted
    \/ \E fails \in BOOLEAN : TurnOn(fails)
    \/ \E fault \in {"none", "cmd", "state"} : TurnOff(fault)
    \/ \E c \in {None, ChildId, SiblingId} : DeviceToggled(c)
    \/ \E g \in 1 .. MaxGen : DeviceReplaced(g)

SpecIdentity == InitIdentity /\ [][NextIdentity]_vars

\* The same, for a single-outlet device with emeter over several days.
InitMeter == Init /\ has_emeter /\ context = None

NextMeter ==
    \/ AsyncUpdateStart
    \/ \E fault \in Faults : AttemptUpdate(fault, OSError)
    \/ CheckReady
    \/ Sleep
    \/ Exhausted
    \/ \E fails \in BOOLEAN : TurnOn(fails)
    \/ \E fault \in {"none", "cmd", "state"} : TurnOff(fault)
    \/ \E c \in {None, ChildId, SiblingId} : DeviceToggled(c)
    \/ Midnight
    \/ DayRecorded

SpecMeter == InitMeter /\ [][NextMeter]_vars


\* turn_off on a worker thread while the executor job of async_update runs
\* on another: the job in its two steps, and no other command to the device.
InitRace == Init /\ ~has_emeter /\ ~LookupFails

NextRace ==
    \/ AsyncUpdateStart
    \/ \E fault \in Faults : AttemptBegin(fault, OSError)
    \/ \E fault \in Faults : AttemptFinish(fault, OSError)
    \/ CheckReady
    \/ Sleep
    \/ Exhausted
    \/ \E fault \in {"none", "cmd", "state"} : TurnOff(fault)

SpecRace == InitRace /\ [][NextRace]_vars


\* The host keeps calling async_update, one call at a time, and a started
\* call is run on: the event loop resumes the coroutine after the executor
\* job and after the sleep.  Nothing is assumed about the switch services or
\* the device.
InitLive == Init /\ ~has_emeter

Fairness ==
    /\ WF_vars(AsyncUpdateStart)
    /\ WF_vars(\E fault \in Faults, kind \in Caught : AttemptUpdate(fault, kind))
    /\ WF_vars(CheckReady)
    /\ WF_vars(Sleep)
    /\ WF_vars(Exhausted)

SpecLive == InitLive /\ [][Next]_vars /\ Fairness

\* ------------------------------------------------------------------ properties
\* C1: within an async_update call the availability flag goes from true to
\* false only in the step after all MAX_ATTEMPTS attempts of that call have
\* failed; a failed attempt, its check and its delay leave the flag as it
\* was; and a call that ends with a successful attempt ends available.
C1_UnavailableOnlyAfterAllAttempts ==
    [][ /\ (available /\ ~available') =>
              (pc = "else" /\ nWarnRetry = MAX_ATTEMPTS /\ update_attempt = MAX_ATTEMPTS - 1)
        /\ (lastOp' \in {"attempt_OSError", "attempt_SmartDeviceException", "retry", "slept"}) =>
              (available' = available)
        /\ (lastOp' = "ready") => (available' /\ nWarnRetry' < MAX_ATTEMPTS)
      ]_vars

\* 19 attempts failed, the 20th succeeded: available before, during and after
C1_Witness ==
    /\ lastOp = "ready"
    /\ nWarnRetry = MAX_ATTEMPTS - 1
    /\ wasAvailable
    /\ available

\* C2: a SmartDeviceException or OSError raised by a device call of
\* attempt_update is caught there: the attempt ends failed (not ready), the
\* warning is logged and async_update goes on to its check, nothing raised.
C2_DeviceErrorsAreCaught ==
    lastOp \in {"attempt_OSError", "attempt_SmartDeviceException"} =>
        (pc = "check" /\ ~is_ready /\ nWarnRetry = update_attempt + 1)

\* an OSError at the daily-history call, after the realtime readings were kept
C2_Witness ==
    /\ lastOp = "attempt_OSError"
    /\ pc = "check"
    /\ ~is_ready
    /\ ATTR_CURRENT_POWER_W \in DOMAIN emeter_params
    /\ ATTR_TODAY_ENERGY_KWH \notin DOMAIN emeter_params

\* C3: a child context whose id no child record carries makes the attempt a
\* failed one like a device error: async_update goes on to its check and
\* retries, and nothing leaves async_update.
C3_LookupFailureIsRetried ==
    lastOp = "attempt_StopIteration" => (pc = "check" /\ ~is_ready)

\* C4: the first successful attempt of a call ends it: the check that follows
\* sets available and returns, with no further attempt and no delay, so the
\* delays and the warnings of the call are those of the failed attempts
\* before it.
C4_SuccessEndsTheCall ==
    [][ /\ (lastOp' = "attempt_ok") => (pc' = "check" /\ is_ready')
        /\ (pc = "check" /\ is_ready /\ pc' # pc) =>
              /\ pc' = "returned"
              /\ available'
              /\ lastOp' = "ready"
              /\ UNCHANGED <<update_attempt, nSleep, nWarnRetry>>
        /\ (lastOp' = "ready") =>
              (nSleep' = update_attempt' /\ nWarnRetry' = update_attempt')
      ]_vars

\* a call that succeeded at its fourth attempt, after three delays
C4_Witness ==
    /\ lastOp = "ready"
    /\ pc = "returned"
    /\ available
    /\ update_attempt = 3
    /\ nSleep = 3

\* C5: a call whose attempts all fail ends in the else clause: up to it the
\* flag had its value from before the call, the step makes it false, 20
\* per-attempt warnings were logged, and the transition warning is logged
\* once if the entity was available and not at all if it was not.
C5_ExhaustedCall ==
    [][ (pc = "else" /\ pc' # pc) =>
          /\ available = wasAvailable
          /\ ~available'
          /\ lastOp' = "exhausted"
          /\ nWarnRetry' = MAX_ATTEMPTS
          /\ nWarnLost = 0
          /\ nWarnLost' = IF wasAvailable THEN 1 ELSE 0
      ]_vars

\* available, then 20 attempts that raised OSError
C5_Witness ==
    /\ lastOp = "exhausted"
    /\ wasAvailable
    /\ ~available
    /\ onlyOSError
    /\ nWarnRetry = MAX_ATTEMPTS
    /\ nWarnLost = 1

\* C6: an identity field (sysinfo, host, MAC, model, alias, unique id) that
\* holds a value keeps it in every step: attempts, checks, turn_on, turn_off,
\* also when the device has come to report another alias, model or MAC.
C6_IdentityKept ==
    [][ /\ (sysinfo # NoSysinfo) => (sysinfo' = sysinfo)
        /\ (host # None) => (host' = host)
        /\ (mac # None) => (mac' = mac)
        /\ (model # None) => (model' = model)
        /\ (alias # None) => (alias' = alias)
        /\ (device_id # None) => (device_id' = device_id)
      ]_vars

\* a successful attempt on a device that reports its second identity, with
\* the first one cached
C6_Witness ==
    /\ lastOp = "attempt_ok"
    /\ devGen = 2
    /\ sysinfo[1].sw_ver = SwVers[1]
    /\ host = DevHost
    /\ mac = Macs[1]
    /\ model = Models[1]
    /\ alias = Aliases[1]
    /\ device_id # None

\* C7: on a device without emeter the emeter cache is empty in every state.
C7_NoEmeterNoReadings == ~has_emeter => emeter_params = EmptyDict

\* a device without emeter after a second successful call
C7_Witness ==
    /\ ~has_emeter
    /\ lastOp = "ready"
    /\ wasAvailable
    /\ state # NoState
    /\ emeter_params = EmptyDict

\* C8: after a successful attempt on a device with emeter whose daily
\* history has no entry for the current day, the cache holds no today's
\* energy value, whatever it held before.
C8_NoEntryNoTodayEnergy ==
    (lastOp = "attempt_ok" /\ has_emeter /\ today \notin DOMAIN get_emeter_daily) =>
        ATTR_TODAY_ENERGY_KWH \notin DOMAIN emeter_params

\* C9: when turn_off has returned, the addressed outlet is off and the
\* cached state is False, with no async_update step in between.
C9_TurnOffUpdatesState ==
    (lastOp = "turn_off") => (state = <<FALSE>> /\ ~DeviceIsOn)

\* turn_off of an addressed child outlet whose sibling is on, called between
\* two attempts of a call
C9_Witness ==
    /\ lastOp = "turn_off"
    /\ context = ChildId
    /\ childState[SiblingId] = 1
    /\ pc = "sleep"
    /\ state = <<FALSE>>

\* C10: a turn_on or turn_off that raises leaves every field of the entity
\* as it was.
C10_RaisingCommandKeepsCache ==
    [][ (lastOp' \in {"turn_on_raised", "turn_off_raised"}) => UNCHANGED selfVars ]_vars

\* turn_off whose command raised: the device is still on, the cache says on
C10_Witness ==
    /\ lastOp = "turn_off_raised"
    /\ DeviceIsOn
    /\ state = <<TRUE>>
    /\ available

\* C11: after every successful attempt the cached state is the on/off state
\* of the addressed outlet (top-level state = SWITCH_STATE_ON without child
\* context, state field of the addressed child = 1 with one, whatever the
\* siblings are), and the unique id is the child context id in the child
\* case and the hardware address otherwise.
C11_StateAndUniqueId ==
    (lastOp = "attempt_ok") =>
        /\ state = IF context = None THEN <<devState = SWITCH_STATE_ON>>
                   ELSE <<childState[context] = 1>>
        /\ device_id = IF context = None THEN Macs[devGen] ELSE context

C13_TurnOffChangesStateOnly ==
    [][ (lastOp' \in {"turn_off", "turn_off_raised"}) =>
          UNCHANGED <<identityVars, available, emeter_params, is_ready>>
      ]_vars

\* turn_off during a call's delay, with the readings of the switched-on
\* outlet still cached and the last attempt failed
C13_Witness ==
    /\ lastOp = "turn_off"
    /\ state = <<FALSE>>
    /\ pc = "sleep"
    /\ ~is_ready
    /\ available
    /\ ATTR_CURRENT_POWER_W \in DOMAIN emeter_params
    /\ emeter_params[ATTR_CURRENT_POWER_W].scaled > 0

\* C14: an attempt that ends failed leaves the cached state and every
\* cached meter reading as they were before it.
C14_FailedAttemptKeepsSnapshot ==
    [][ (lastOp' \in {"attempt_OSError", "attempt_SmartDeviceException"}) =>
          UNCHANGED cacheVars
      ]_vars

\* C15: every failed attempt is followed by one delay before the next
\* attempt or the else clause starts, the 20th included; a call that ends
\* with a success took as many delays as attempts failed, an exhausted one
\* MAX_ATTEMPTS; and during the call the flag has its value from before it.
C15_OneDelayPerFailedAttempt ==
    /\ (pc \in {"attempt", "check", "sleep", "else"}) => (available = wasAvailable)
    /\ (pc = "attempt") => (nSleep = nWarnRetry /\ nSleep = update_attempt)
    /\ (pc = "sleep") => (nSleep + 1 = nWarnRetry)
    /\ (pc = "else") => (nSleep = MAX_ATTEMPTS /\ nWarnRetry = MAX_ATTEMPTS)
    /\ (lastOp = "ready") => (nSleep = nWarnRetry)
    /\ (lastOp = "exhausted") => (nSleep = MAX_ATTEMPTS)

\* an available entity at the end of the 20th delay of a call
C15_Witness ==
    /\ pc = "else"
    /\ nSleep = MAX_ATTEMPTS
    /\ wasAvailable
    /\ available

\* C16: whenever the entity is available, its identity is fully resolved.
C16_AvailableImpliesIdentity ==
    available =>
        /\ sysinfo # NoSysinfo
        /\ host # None
        /\ mac # None
        /\ model # None
        /\ alias # None
        /\ device_id # None

\* C17: a turn_off that ran and returned while an attempt was in flight is
\* not undone by that attempt: when the attempt finishes, the cached state
\* is the state of the outlet (off), not the one the attempt had read before
\* the command.
C17_NoStaleStateAfterTurnOff ==
    [][ (pc = "in_attempt" /\ lastOp = "turn_off" /\ lastOp' = "attempt_ok") =>
          (state' = <<DeviceIsOn'>>)
      ]_vars

\* C18: a call of async_update ends by returning, never by an exception and
\* never suspended for ever; it has then run between 1 and MAX_ATTEMPTS
\* attempts, and the entity is available exactly if the last attempt of this
\* call was ready.
C18_CallReturns ==
    /\ pc \notin {"raised", "hung"}
    /\ (pc = "returned") =>
          /\ available = is_ready
          /\ update_attempt + 1 \in 1 .. MAX_ATTEMPTS
          /\ nWarnRetry = IF is_ready THEN update_attempt ELSE MAX_ATTEMPTS

\* C19: if from some point on no attempt ends with a device error, the
\* entity becomes available and stays available.
C19_EventuallyAvailable ==
    <>[](lastOp \notin {"attempt_OSError", "attempt_SmartDeviceException"}) => <>[]available
====
